---- MODULE Spec2Model ----
(***************************************************************************)
(* StaticFilesHandler (nickel.rs, src/static_files_handler.rs).            *)
(*                                                                         *)
(* Strings are sequences of bytes (Rust &str / Path are byte strings on a  *)
(* Unix host).  One behaviour is one call of Middleware::invoke on one     *)
(* request; the handler keeps nothing between calls but root_path.        *)
(* std::path is modelled for a Unix host: the separator is '/', and no     *)
(* path has a Prefix component.                                            *)
(***************************************************************************)
EXTENDS Integers, Sequences, FiniteSets

VARIABLES
    root_path,   \* StaticFilesHandler.root_path
    req,         \* the request: method and path_without_query()
    pc,          \* "ready" | "done" (invoke) ; "test" | "tested" (safe_path alone)
    candidate,   \* what extract_path returned
    decoded,     \* what percent_decode returned
    safe,        \* what safe_path returned: "unchecked" | "safe" | "unsafe"
    outcome,     \* how invoke ended
    calls,       \* the response operations invoke called, in order
    ops,         \* the handler's own steps, in order
    fs_log       \* the fs::metadata probes: path probed and what it answered

vars == <<root_path, req, pc, candidate, decoded, safe, outcome, calls, ops, fs_log>>

(***************************** bytes ***************************************)
Slash   == 47
Dot     == 46
Percent == 37

IndexHtml == <<105,110,100,101,120,46,104,116,109,108>>   \* "index.html"

(***************************** bounds **************************************)
MaxTokens == 3

\* The pieces the request paths are built from, after their leading '/':
\*   "/"  "."  "z"  "%"  "%2e" (.)  "%2f" (/)  "%ff"  "%C3"  "%A9"  "e-acute" (C3 A9)
Tokens == { <<47>>, <<46>>, <<122>>, <<37>>,
            <<37,50,101>>, <<37,50,102>>, <<37,102,102>>,
            <<37,67,51>>, <<37,65,57>>, <<195,169>> }

RECURSIVE TokenPaths(_)
TokenPaths(n) ==
    IF n = 0 THEN { <<>> }
    ELSE LET S == TokenPaths(n - 1)
         IN  S \cup { s \o t : s \in S, t \in Tokens }

\* Request paths named in the documentation of the handler's behaviour.
ExamplePaths ==
    {
      <<47,37,50,101,37,50,101,47,115,101,99,114,101,116,46,116,120,116>>,   \* /%2e%2e/secret.txt
      <<47,37,122,122>>,   \* /%zz
      <<47,97,47,98,46,116,120,116>>,   \* /a/b.txt
      <<47,97,47,109,105,115,115,105,110,103,46,116,120,116>>,   \* /a/missing.txt
      <<47,47,120>>,   \* //x
      <<47,100,105,114,47>>,   \* /dir/
      <<47,97,47,46,46,47,98>>    \* /a/../b
    }

Methods == {"Get", "Head", "Post"}

RootPaths == { <<114>>, <<114, 47>> }        \* "r" and "r/"

\* What fs::metadata can answer for the probed path.
MetadataResults == {"File", "Dir", "NotFound", "PermissionDenied"}

(************************* std::str (UTF-8) ********************************)
\* A continuation byte 10xxxxxx.
IsCont(b) == b >= 128 /\ b <= 191

\* str::is_char_boundary(i), i a byte offset (0-based) into s.
IsCharBoundary(s, i) ==
    \/ i = 0
    \/ i = Len(s)
    \/ i < Len(s) /\ ~IsCont(s[i + 1])

\* core::str::from_utf8: does the byte string hold well-formed UTF-8 only?
RECURSIVE Utf8Valid(_)
Utf8Valid(s) ==
    IF s = <<>> THEN TRUE
    ELSE LET b == s[1]
             n == Len(s)
         IN  IF b < 128 THEN Utf8Valid(Tail(s))
             ELSE IF b >= 194 /\ b <= 223
             THEN n >= 2 /\ IsCont(s[2]) /\ Utf8Valid(SubSeq(s, 3, n))
             ELSE IF b >= 224 /\ b <= 239
             THEN /\ n >= 3
                  /\ IF b = 224 THEN s[2] >= 160 /\ s[2] <= 191
                     ELSE IF b = 237 THEN s[2] >= 128 /\ s[2] <= 159
                     ELSE IsCont(s[2])
                  /\ IsCont(s[3])
                  /\ Utf8Valid(SubSeq(s, 4, n))
             ELSE IF b >= 240 /\ b <= 244
             THEN /\ n >= 4
                  /\ IF b = 240 THEN s[2] >= 144 /\ s[2] <= 191
                     ELSE IF b = 244 THEN s[2] >= 128 /\ s[2] <= 143
                     ELSE IsCont(s[2])
                  /\ IsCont(s[3])
                  /\ IsCont(s[4])
                  /\ Utf8Valid(SubSeq(s, 5, n))
             ELSE FALSE

(************************* percent_encoding ********************************)
\* char::to_digit(16): 0-9, a-f, A-F; -1 when the byte is no hex digit.
HexVal(b) ==
    IF b >= 48 /\ b <= 57 THEN b - 48
    ELSE IF b >= 97 /\ b <= 102 THEN b - 87
    ELSE IF b >= 65 /\ b <= 70 THEN b - 55
    ELSE -1

IsHex(b) == HexVal(b) >= 0

\* percent_encoding::percent_decode(bytes): a '%' followed by two hex digits
\* becomes the byte they name; every other byte, a '%' that starts no
\* well-formed escape included, is copied as it is.
RECURSIVE PercentDecodeBytes(_)
PercentDecodeBytes(s) ==
    IF s = <<>> THEN <<>>
    ELSE IF s[1] = Percent /\ Len(s) >= 3 /\ IsHex(s[2]) /\ IsHex(s[3])
    THEN <<HexVal(s[2]) * 16 + HexVal(s[3])>> \o PercentDecodeBytes(SubSeq(s, 4, Len(s)))
    ELSE <<s[1]>> \o PercentDecodeBytes(Tail(s))

\* Mutant: decode_utf8_lossy instead of decode_utf8 (never an error).
percent_decode_lossy(path) ==
    [ok |-> TRUE, str |-> PercentDecodeBytes(path)]

\* StaticFilesHandler::percent_decode: Ok(decoded text) or Err(Utf8Error).
percent_decode(path) ==
    LET bytes == PercentDecodeBytes(path)
    IN  IF Utf8Valid(bytes) THEN [ok |-> TRUE, str |-> bytes]
        ELSE [ok |-> FALSE, str |-> <<>>]

(***************************** std::path ***********************************)
\* Components::has_physical_root / Path::is_absolute on Unix.
has_root(p) == p # <<>> /\ p[1] = Slash

\* Components::include_cur_dir: a leading "." is kept as CurDir.
include_cur_dir(p) ==
    /\ ~has_root(p)
    /\ Len(p) >= 1
    /\ p[1] = Dot
    /\ (Len(p) = 1 \/ p[2] = Slash)

\* Components::parse_single_component: "" and "." yield nothing in the body.
parse_single_component(comp) ==
    IF comp = <<>> \/ comp = <<Dot>> THEN <<>>
    ELSE IF comp = <<Dot, Dot>> THEN << [kind |-> "ParentDir", name |-> comp] >>
    ELSE << [kind |-> "Normal", name |-> comp] >>

\* Offset of the first separator of p, Len(p) + 1 when there is none.
FirstSep(p) ==
    IF \E i \in 1..Len(p) : p[i] = Slash
    THEN CHOOSE i \in 1..Len(p) : p[i] = Slash /\ \A j \in 1..(i - 1) : p[j] # Slash
    ELSE Len(p) + 1

\* Components::next in State::Body, to the end of the path.
RECURSIVE Body(_)
Body(p) ==
    IF p = <<>> THEN <<>>
    ELSE LET n == FirstSep(p)
         IN  parse_single_component(SubSeq(p, 1, n - 1)) \o Body(SubSeq(p, n + 1, Len(p)))

\* Path::components(): State::StartDir, then the body.
Components(p) ==
    IF has_root(p) THEN << [kind |-> "RootDir", name |-> <<Slash>>] >> \o Body(Tail(p))
    ELSE IF include_cur_dir(p) THEN << [kind |-> "CurDir", name |-> <<Dot>>] >> \o Body(Tail(p))
    ELSE Body(p)

\* Path::join / PathBuf::push: an absolute path replaces the base.
join(base, p) ==
    IF has_root(p) THEN p
    ELSE IF base # <<>> /\ base[Len(base)] # Slash THEN base \o <<Slash>> \o p
    ELSE base \o p

(************************** static_files_handler ****************************)
NoOutcome == [tag |-> "None", status |-> "", path |-> <<>>]
NoString  == [some |-> FALSE, panic |-> FALSE, str |-> <<>>]
NoDecoded == [called |-> FALSE, ok |-> FALSE, str |-> <<>>]

\* One call of a response operation.
Call(op, status, path) == [op |-> op, status |-> status, path |-> path]

PassThrough == [tag |-> "PassThrough", status |-> "", path |-> <<>>]
Reject      == [tag |-> "Reject", status |-> "BadRequest", path |-> <<>>]
Serve(path) == [tag |-> "Serve", status |-> "", path |-> path]

\* Mutant: only the first component is looked at.
safe_path_first_only(path) ==
    LET cs == Components(path)
    IN  cs = <<>> \/ cs[1].kind \in {"CurDir", "Normal"}

\* Mutant: a blacklist of ParentDir instead of the whitelist.
safe_path_parent_only(path) ==
    \A i \in 1..Len(Components(path)) : Components(path)[i].kind # "ParentDir"

\* Mutant: CurDir is not on the whitelist.
safe_path_normal_only(path) ==
    \A i \in 1..Len(Components(path)) : Components(path)[i].kind = "Normal"

\* safe_path: every component is CurDir or Normal.
safe_path(path) ==
    LET cs == Components(path)
    IN  \A i \in 1..Len(cs) : cs[i].kind \in {"CurDir", "Normal"}

\* StaticFilesHandler::new
new(root) == root

\* Mutant: every leading '/' is trimmed, not the first byte alone.
RECURSIVE TrimSlashes(_)
TrimSlashes(s) == IF s # <<>> /\ s[1] = Slash THEN TrimSlashes(Tail(s)) ELSE s

extract_path_trim(r) ==
    IF ~r.path.some THEN NoString
    ELSE IF r.path.str = <<Slash>> THEN [some |-> TRUE, panic |-> FALSE, str |-> IndexHtml]
    ELSE [some |-> TRUE, panic |-> FALSE, str |-> TrimSlashes(r.path.str)]

\* StaticFilesHandler::extract_path: None, or Some(candidate); the slice
\* &path[1..] panics unless byte offset 1 is a char boundary of path.
extract_path(r) ==
    IF ~r.path.some THEN NoString
    ELSE IF r.path.str = <<Slash>> THEN [some |-> TRUE, panic |-> FALSE, str |-> IndexHtml]
    ELSE IF IsCharBoundary(r.path.str, 1)
    THEN [some |-> TRUE, panic |-> FALSE, str |-> SubSeq(r.path.str, 2, Len(r.path.str))]
    ELSE [some |-> FALSE, panic |-> TRUE, str |-> <<>>]

\* Mutant: the metadata probe is made before the path is validated.
with_file_probe_first(root, path, meta) ==
    LET full == join(root, path)
        log  == << [path |-> full, result |-> meta] >>
    IN  IF ~safe_path(path)
        THEN [safe |-> "unsafe", outcome |-> Reject,
              calls |-> << Call("error", "BadRequest", <<>>) >>,
              ops |-> <<"metadata", "safe_path">>, fs_log |-> log]
        ELSE IF meta = "File"
        THEN [safe |-> "safe", outcome |-> Serve(full),
              calls |-> << Call("send_file", "", full) >>,
              ops |-> <<"metadata", "safe_path">>, fs_log |-> log]
        ELSE [safe |-> "safe", outcome |-> PassThrough,
              calls |-> << Call("next_middleware", "", <<>>) >>,
              ops |-> <<"metadata", "safe_path">>, fs_log |-> log]

\* Mutant: the denial of an unsafe path does not return, and the probe and
\* its response follow it.
with_file_no_return(root, path, meta) ==
    LET full   == join(root, path)
        log    == << [path |-> full, result |-> meta] >>
        denied == IF safe_path(path) THEN <<>>
                  ELSE << Call("error", "BadRequest", <<>>) >>
        verdict == IF safe_path(path) THEN "safe" ELSE "unsafe"
    IN  IF meta = "File"
        THEN [safe |-> verdict, outcome |-> Serve(full),
              calls |-> denied \o << Call("send_file", "", full) >>,
              ops |-> <<"safe_path", "metadata">>, fs_log |-> log]
        ELSE [safe |-> verdict, outcome |-> PassThrough,
              calls |-> denied \o << Call("next_middleware", "", <<>>) >>,
              ops |-> <<"safe_path", "metadata">>, fs_log |-> log]

\* Mutant: a probe error other than NotFound is answered with an error.
with_file_error_rejects(root, path, meta) ==
    IF ~safe_path(path)
    THEN [safe |-> "unsafe", outcome |-> Reject,
          calls |-> << Call("error", "BadRequest", <<>>) >>,
          ops |-> <<"safe_path">>, fs_log |-> <<>>]
    ELSE LET full == join(root, path)
             log  == << [path |-> full, result |-> meta] >>
         IN  IF meta = "File"
             THEN [safe |-> "safe", outcome |-> Serve(full),
                   calls |-> << Call("send_file", "", full) >>,
                   ops |-> <<"safe_path", "metadata">>, fs_log |-> log]
             ELSE IF meta = "PermissionDenied"
             THEN [safe |-> "safe", outcome |-> Reject,
                   calls |-> << Call("error", "BadRequest", <<>>) >>,
                   ops |-> <<"safe_path", "metadata">>, fs_log |-> log]
             ELSE [safe |-> "safe", outcome |-> PassThrough,
                   calls |-> << Call("next_middleware", "", <<>>) >>,
                   ops |-> <<"safe_path", "metadata">>, fs_log |-> log]

\* StaticFilesHandler::with_file; meta is what fs::metadata answers for the
\* joined path.
with_file(root, path, meta) ==
    IF ~safe_path(path)
    THEN [safe |-> "unsafe", outcome |-> Reject,
          calls |-> << Call("error", "BadRequest", <<>>) >>,
          ops |-> <<"safe_path">>, fs_log |-> <<>>]
    ELSE LET full == join(root, path)
             log  == << [path |-> full, result |-> meta] >>
         IN  IF meta = "File"
             THEN [safe |-> "safe", outcome |-> Serve(full),
                   calls |-> << Call("send_file", "", full) >>,
                   ops |-> <<"safe_path", "metadata">>, fs_log |-> log]
             ELSE \* Err(e) with e.kind() != NotFound, and every other case
                  [safe |-> "safe", outcome |-> PassThrough,
                   calls |-> << Call("next_middleware", "", <<>>) >>,
                   ops |-> <<"safe_path", "metadata">>, fs_log |-> log]

\* res.next_middleware() with nothing else done after `done`.
Deferred(cand, done) ==
    [candidate |-> cand, decoded |-> NoDecoded, safe |-> "unchecked",
     outcome |-> PassThrough, calls |-> << Call("next_middleware", "", <<>>) >>,
     ops |-> done, fs_log |-> <<>>]

\* The Get | Head arm of invoke.
GetOrHead(root, r, meta) ==
    LET cand == extract_path(r)
    IN  IF cand.panic
        THEN [candidate |-> cand, decoded |-> NoDecoded, safe |-> "unchecked",
              outcome |-> [tag |-> "Panic", status |-> "", path |-> <<>>],
              calls |-> <<>>, ops |-> <<"extract_path">>, fs_log |-> <<>>]
        ELSE IF ~cand.some THEN Deferred(cand, <<"extract_path">>)
        ELSE LET d == percent_decode(cand.str)
             IN  IF ~d.ok
                 THEN [candidate |-> cand,
                       decoded |-> [called |-> TRUE, ok |-> FALSE, str |-> <<>>],
                       safe |-> "unchecked", outcome |-> Reject,
                       calls |-> << Call("error", "BadRequest", <<>>) >>,
                       ops |-> <<"extract_path", "percent_decode">>, fs_log |-> <<>>]
                 ELSE LET w == with_file(root, d.str, meta)
                      IN  [candidate |-> cand,
                           decoded |-> [called |-> TRUE, ok |-> TRUE, str |-> d.str],
                           safe |-> w.safe, outcome |-> w.outcome, calls |-> w.calls,
                           ops |-> <<"extract_path", "percent_decode">> \o w.ops,
                           fs_log |-> w.fs_log]

\* Mutant: Head is not served.
invoke_get_only(root, r, meta) ==
    IF r.method = "Get" THEN GetOrHead(root, r, meta)
    ELSE Deferred(NoString, <<>>)

\* Middleware::invoke
invoke(root, r, meta) ==
    IF r.method \in {"Get", "Head"} THEN GetOrHead(root, r, meta)
    ELSE Deferred(NoString, <<>>)

(***************************** behaviours **********************************)
\* What path_without_query() can return: None, or a path that begins with '/'.
UrlPaths ==
    { [some |-> FALSE, str |-> <<>>] }
        \cup { [some |-> TRUE, str |-> s] :
                   s \in { <<Slash>> \o q : q \in TokenPaths(MaxTokens) } \cup ExamplePaths }

Requests == { [method |-> m, path |-> p] : m \in Methods, p \in UrlPaths }

Init ==
    /\ root_path \in { new(r) : r \in RootPaths }
    /\ req \in Requests
    /\ pc = "ready"
    /\ candidate = NoString
    /\ decoded = NoDecoded
    /\ safe = "unchecked"
    /\ outcome = NoOutcome
    /\ calls = <<>>
    /\ ops = <<>>
    /\ fs_log = <<>>

\* One call of invoke on the request, the filesystem answering the probe.
Invoke ==
    /\ pc = "ready"
    /\ \E meta \in MetadataResults :
          LET res == invoke(root_path, req, meta)
          IN  /\ candidate' = res.candidate
              /\ decoded' = res.decoded
              /\ safe' = res.safe
              /\ outcome' = res.outcome
              /\ calls' = res.calls
              /\ ops' = res.ops
              /\ fs_log' = res.fs_log
    /\ pc' = "done"
    /\ UNCHANGED <<root_path, req>>

Next == Invoke

Spec == Init /\ [][Next]_vars

(*********************** safe_path on its own ******************************)
\* The paths of the tests bad_paths and valid_paths.
BadPaths ==
    { <<102,111,111,47,98,97,114,47,46,46,47,98,97,122,47,105,110,100,101,120,46,104,116,109,108>>,
      <<102,111,111,47,98,97,114,47,46,46,47,98,97,122>>,
      <<46,46,47,98,97,114,47>>,
      <<46,46>>,
      <<47>> }

GoodPaths ==
    { <<102,111,111,47,98,97,114,47,46,47,98,97,122,47,105,110,100,101,120,46,104,116,109,108>>,
      <<102,111,111,47,98,97,114,47,46,47,98,97,122>>,
      <<46,47,98,97,114,47>>,
      <<46>>,
      <<105,110,100,101,120,46,104,116,109,108>> }

InitSafePath ==
    /\ root_path \in RootPaths
    /\ req = [method |-> "Get", path |-> [some |-> FALSE, str |-> <<>>]]
    /\ pc = "test"
    /\ candidate = NoString
    /\ decoded \in { [called |-> FALSE, ok |-> TRUE, str |-> s] :
                        s \in TokenPaths(MaxTokens) \cup BadPaths \cup GoodPaths }
    /\ safe = "unchecked"
    /\ outcome = NoOutcome
    /\ calls = <<>>
    /\ ops = <<>>
    /\ fs_log = <<>>

\* safe_path applied to the path held in decoded.str.
TestSafePath ==
    /\ pc = "test"
    /\ safe' = IF safe_path(decoded.str) THEN "safe" ELSE "unsafe"
    /\ ops' = <<"safe_path">>
    /\ pc' = "tested"
    /\ UNCHANGED <<root_path, req, candidate, decoded, outcome, calls, fs_log>>

NextSafePath == TestSafePath

SpecSafePath == InitSafePath /\ [][NextSafePath]_vars

(****************************** claims *************************************)
\* Path classification stated on the text of the path, without components():
\* some '/'-separated segment of p is "..".
HasDotDotSegment(p) ==
    \E i \in 1..(Len(p) - 1) :
        /\ p[i] = Dot /\ p[i + 1] = Dot
        /\ (i = 1 \/ p[i - 1] = Slash)
        /\ (i + 1 = Len(p) \/ p[i + 2] = Slash)

\* p names only "." markers and normal segments below the directory it is
\* joined to: it does not start at the root and has no ".." segment.
OnlyCurDirAndNormal(p) == ~(Len(p) >= 1 /\ p[1] = Slash) /\ ~HasDotDotSegment(p)

\* base, one separator unless base ends in one, then p.
Under(base, p) ==
    IF base[Len(base)] = Slash THEN base \o p ELSE base \o <<Slash>> \o p

IsPrefix(a, b) == Len(a) <= Len(b) /\ SubSeq(b, 1, Len(a)) = a

\* Some '%' of s is not followed by two hexadecimal digits.
HasMalformedEscape(s) ==
    \E i \in 1..Len(s) :
        /\ s[i] = Percent
        /\ ~(i + 2 <= Len(s) /\ IsHex(s[i + 1]) /\ IsHex(s[i + 2]))

Served == pc = "done" /\ outcome.tag = "Serve"

GetOrHeadDone == pc = "done" /\ req.method \in {"Get", "Head"}

\* invoke reached percent_decode with a candidate path.
Decoding == GetOrHeadDone /\ candidate.some

\* C1 (state part): a served path is root_path, a separator, and the decoded
\* candidate; the decoded candidate has only "." and normal components; so the
\* served path lies under root_path.
C1_ServedUnderRoot ==
    Served =>
        /\ candidate.some /\ decoded.ok
        /\ decoded.str = PercentDecodeBytes(candidate.str)
        /\ OnlyCurDirAndNormal(decoded.str)
        /\ outcome.path = Under(root_path, decoded.str)
        /\ IsPrefix(root_path, outcome.path)
        /\ root_path \in RootPaths

\* C1: whenever the outcome is Serve(p), p is root_path joined with the
\* decoded candidate, whose components are all "." or normal, and no step
\* changes root_path.
C1_ServeJoinsSafePathOntoRoot ==
    [](C1_ServedUnderRoot) /\ [][root_path' = root_path]_vars

C1_Witness ==
    /\ Served
    /\ req.path.str = <<Slash, 37, 50, 101, Slash>>      \* "/%2e/"
    /\ outcome.path = root_path \o <<Slash, Dot, Slash>>
    /\ Len(root_path) = 1

\* C2: safe_path(p) is true exactly when p has no root marker and no ".."
\* segment, wherever it stands; the paths of bad_paths are unsafe and those of
\* valid_paths are safe.
C2_SafePathIffWhitelisted ==
    pc = "tested" =>
        /\ (safe = "safe") <=> OnlyCurDirAndNormal(decoded.str)
        /\ decoded.str \in BadPaths => safe = "unsafe"
        /\ decoded.str \in GoodPaths => safe = "safe"

C2_Witness ==
    /\ pc = "tested"
    /\ decoded.str = <<102,111,111,47,98,97,114,47,46,46,47,98,97,122>>  \* foo/bar/../baz
    /\ safe = "unsafe"

\* C3: a GET or HEAD request whose decoded path is unsafe is rejected with
\* BadRequest, by validation of the decoded path, and no metadata probe is made.
C3_UnsafeRejectedBeforeProbe ==
    (/\ Decoding
     /\ Utf8Valid(PercentDecodeBytes(candidate.str))
     /\ ~OnlyCurDirAndNormal(PercentDecodeBytes(candidate.str)))
    =>
        /\ outcome = Reject
        /\ calls = << Call("error", "BadRequest", <<>>) >>
        /\ safe = "unsafe"
        /\ fs_log = <<>>
        /\ ops = <<"extract_path", "percent_decode", "safe_path">>

C3_Witness ==
    /\ pc = "done"
    /\ req.path.str = <<47,37,50,101,37,50,101,47,115,101,99,114,101,116,46,116,120,116>>
                                                    \* "/%2e%2e/secret.txt"
    /\ decoded.str = <<46,46,47,115,101,99,114,101,116,46,116,120,116>>   \* "../secret.txt"
    /\ outcome = Reject
    /\ fs_log = <<>>

\* C4: a GET or HEAD request whose path has a malformed percent-escape (a '%'
\* not followed by two hexadecimal digits) is rejected with BadRequest.
C4_MalformedEscapeRejected ==
    (Decoding /\ HasMalformedEscape(candidate.str)) => outcome = Reject

\* C5: when the escapes of the candidate decode to bytes that are not UTF-8,
\* the request is rejected with BadRequest and neither validation nor the
\* filesystem sees the bytes.
C5_NonUtf8Rejected ==
    (Decoding /\ ~Utf8Valid(PercentDecodeBytes(candidate.str))) =>
        /\ outcome = Reject
        /\ calls = << Call("error", "BadRequest", <<>>) >>
        /\ decoded = [called |-> TRUE, ok |-> FALSE, str |-> <<>>]
        /\ safe = "unchecked"
        /\ fs_log = <<>>
        /\ ops = <<"extract_path", "percent_decode">>

C5_Witness ==
    /\ pc = "done"
    /\ req.path.str = <<Slash, 37, 102, 102>>                 \* "/%ff"
    /\ outcome = Reject
    /\ safe = "unchecked"

\* C6: a method other than GET and HEAD passes through with no extraction,
\* decoding, validation or probe, whatever the path; and GET and HEAD end the
\* same way on the same path and filesystem answer.
C6_OtherMethodsPassThrough ==
    /\ (pc = "done" /\ req.method \notin {"Get", "Head"}) =>
          /\ outcome = PassThrough
          /\ calls = << Call("next_middleware", "", <<>>) >>
          /\ ops = <<>>
          /\ candidate = NoString /\ decoded = NoDecoded /\ safe = "unchecked"
          /\ fs_log = <<>>
    /\ GetOrHeadDone =>
          \A m \in {"Get", "Head"} :
              \E meta \in MetadataResults :
                  LET res == invoke(root_path, [req EXCEPT !.method = m], meta)
                  IN  /\ res.outcome = outcome /\ res.calls = calls
                      /\ res.fs_log = fs_log /\ res.ops = ops

C6_Witness ==
    /\ pc = "done"
    /\ req.method = "Post"
    /\ req.path.str = <<Slash, Dot, Dot>>                     \* "/.."
    /\ outcome = PassThrough
    /\ ops = <<>>

\* C7: every invocation calls exactly one response operation, the
\* one of its outcome, never panics, and probes the filesystem at most once.
C7_ExactlyOneResponse ==
    pc = "done" =>
        /\ outcome.tag \in {"Serve", "Reject", "PassThrough"}
        /\ Len(calls) = 1
        /\ outcome.tag = "Serve" => calls[1] = Call("send_file", "", outcome.path)
        /\ outcome.tag = "Reject" => calls[1] = Call("error", "BadRequest", <<>>)
        /\ outcome.tag = "PassThrough" => calls[1] = Call("next_middleware", "", <<>>)
        /\ Len(fs_log) <= 1

C7_Witness ==
    /\ pc = "done"
    /\ req.path.str = <<47,97,47,98,46,116,120,116>>             \* "/a/b.txt"
    /\ outcome.tag = "Serve"
    /\ calls = << Call("send_file", "", root_path \o req.path.str) >>
    /\ Len(fs_log) = 1

\* C8 (as stated): "." alone is classified unsafe, as ".." alone is.
C8_DotAloneUnsafe ==
    (pc = "tested" /\ decoded.str \in { <<Dot>>, <<Dot, Dot>> }) => safe = "unsafe"

\* C8 (amended): "." alone is classified safe; ".." alone is unsafe.
C8_DotAloneSafe ==
    pc = "tested" =>
        /\ decoded.str = <<Dot>> => safe = "safe"
        /\ decoded.str = <<Dot, Dot>> => safe = "unsafe"

C8_Witness == pc = "tested" /\ decoded.str = <<Dot>> /\ safe = "safe"

\* C9: for a GET or HEAD request whose decoded path is safe there is one
\* probe, of root_path joined with the path; the outcome is Serve of that
\* path exactly when the probe reports a regular file, PassThrough otherwise,
\* and never Reject.
C9_OutcomeFollowsProbe ==
    (/\ Decoding
     /\ Utf8Valid(PercentDecodeBytes(candidate.str))
     /\ OnlyCurDirAndNormal(PercentDecodeBytes(candidate.str)))
    =>
        /\ Len(fs_log) = 1
        /\ fs_log[1].path = Under(root_path, PercentDecodeBytes(candidate.str))
        /\ fs_log[1].result = "File" => outcome = Serve(fs_log[1].path)
        /\ fs_log[1].result # "File" => outcome = PassThrough
        /\ outcome.tag # "Reject"

C9_Witness ==
    /\ GetOrHeadDone
    /\ Len(fs_log) = 1
    /\ fs_log[1].result = "PermissionDenied"
    /\ outcome = PassThrough

\* C10: GET or HEAD: "/" gives the candidate "index.html"; every
\* other available path gives the path without its first character; an
\* unavailable path gives no candidate and passes through.
C10_ExtractPath ==
    GetOrHeadDone =>
        /\ ~req.path.some => (~candidate.some /\ outcome = PassThrough)
        /\ (req.path.some /\ req.path.str = <<Slash>>) =>
              (candidate.some /\ candidate.str = IndexHtml)
        /\ (req.path.some /\ req.path.str # <<Slash>>) =>
              (candidate.some /\ candidate.str = SubSeq(req.path.str, 2, Len(req.path.str)))

C10_Witness ==
    /\ GetOrHeadDone
    /\ req.path.str = <<47,47,120>>                             \* "//x"
    /\ candidate = [some |-> TRUE, panic |-> FALSE, str |-> <<47,120>>]   \* "/x"

====
